---- MODULE Spec2Model ----
(***************************************************************************)
(* Model of the gobblet rules engine (crate `gobblet`): Board, CellState,  *)
(* Line, Move and Game::submit with look_for_victory.                      *)
(***************************************************************************)
EXTENDS Integers, Sequences, FiniteSets, TLC

\* ---------------------------------------------------------------- bounds
\* Longest history explored while the game is in progress (Spec).
MaxMoves == 5

\* Longest history explored while the game is in progress (SpecUncover).
MaxUncoverMoves == 7

\* Longest history explored while the game is in progress (SpecScenario).
MaxScenarioMoves == 8

\* Longest move history under SpecLoop
MaxLoopMoves == 10

\* Longest move history under SpecMain
MaxMainMoves == 5

\* Largest row and column handed to Cell::new (SpecCalls).
MaxCoord == 4

\* ------------------------------------------------------------ data model
None == "None"
One == "One"
Two == "Two"
Players == {One, Two}

\* impl Not for Player
Not(p) == IF p = One THEN Two ELSE One

\* enum Size { Small = 1, Medium = 2, Large = 3 }; NoSize is Option::None
Small == 1
Medium == 2
Large == 3
Sizes == {Small, Medium, Large}
NoSize == 0

\* struct Cell(usize): index row * 3 + col; NoCell is Option::<Cell>::None.
Cells == 0 .. 8
NoCell == -1

\* Result<Cell, CellError>
CellOk(cell) == [ok |-> TRUE, cell |-> cell, err |-> None]
CellErr(e) == [ok |-> FALSE, cell |-> NoCell, err |-> e]

\* Mutant of Cell::new: the column check is off by one.
CellNew_col_bound_off_by_one(r, c) ==
    IF r > 2 THEN CellErr("RowOutOfBounds")
    ELSE IF c > 3 THEN CellErr("ColumnOutOfBounds")
    ELSE CellOk(r * 3 + c)

\* Cell::new
CellNew(r, c) ==
    IF r > 2 THEN CellErr("RowOutOfBounds")
    ELSE IF c > 2 THEN CellErr("ColumnOutOfBounds")
    ELSE CellOk(r * 3 + c)

\* Cell::new(r, c)? for coordinates in range
At(r, c) == CellNew(r, c).cell

\* Cell::row and Cell::col
Row(cell) == cell \div 3
Col(cell) == cell % 3

\* #[derive(Default)] CellState / Board
EmptyCellState == [s \in Sizes |-> None]
EmptyBoard == [c \in Cells |-> EmptyCellState]

\* Mutant of CellState::controlled_by: the slots are probed smallest first.
ControlledBy_smallest_first(state) ==
    IF state[Small] /= None THEN state[Small]
    ELSE IF state[Medium] /= None THEN state[Medium]
    ELSE state[Large]

\* CellState::controlled_by: self.large.or(self.medium).or(self.small)
ControlledBy(state) ==
    IF state[Large] /= None THEN state[Large]
    ELSE IF state[Medium] /= None THEN state[Medium]
    ELSE state[Small]

\* Mutant of CellState::size: probes the slots smallest first.
SizeOf_smallest_first(state) ==
    IF state[Small] /= None THEN Small
    ELSE IF state[Medium] /= None THEN Medium
    ELSE IF state[Large] /= None THEN Large
    ELSE NoSize

\* CellState::size
SizeOf(state) ==
    IF state[Large] /= None THEN Large
    ELSE IF state[Medium] /= None THEN Medium
    ELSE IF state[Small] /= None THEN Small
    ELSE NoSize

\* enum Line; NoLine is Option::<Line>::None
NoLine == [kind |-> "None", n |-> 0]

\* Mutant of Line::all: the columns are chained before the rows.
AllLines_columns_first ==
    << [kind |-> "Col", n |-> 0], [kind |-> "Col", n |-> 1],
       [kind |-> "Col", n |-> 2], [kind |-> "Row", n |-> 0],
       [kind |-> "Row", n |-> 1], [kind |-> "Row", n |-> 2],
       [kind |-> "DiagonalUp", n |-> 0], [kind |-> "DiagonalDown", n |-> 0] >>

\* Line::all (iteration order of the chained iterators)
AllLines ==
    << [kind |-> "Row", n |-> 0], [kind |-> "Row", n |-> 1],
       [kind |-> "Row", n |-> 2], [kind |-> "Col", n |-> 0],
       [kind |-> "Col", n |-> 1], [kind |-> "Col", n |-> 2],
       [kind |-> "DiagonalUp", n |-> 0], [kind |-> "DiagonalDown", n |-> 0] >>

\* Mutant of Line::matches: rows and columns are exchanged.
Matches_rows_cols_swapped(line, cell) ==
    CASE line.kind = "Row" -> Col(cell) = line.n
      [] line.kind = "Col" -> Row(cell) = line.n
      [] line.kind = "DiagonalUp" -> Row(cell) + Col(cell) = 2
      [] OTHER -> Row(cell) = Col(cell)

\* Mutant of Line::matches: the rising diagonal sums to 3.
Matches_diagonal_up_off_by_one(line, cell) ==
    CASE line.kind = "Row" -> Row(cell) = line.n
      [] line.kind = "Col" -> Col(cell) = line.n
      [] line.kind = "DiagonalUp" -> Row(cell) + Col(cell) = 3
      [] OTHER -> Row(cell) = Col(cell)

\* Line::matches
Matches(line, cell) ==
    CASE line.kind = "Row" -> Row(cell) = line.n
      [] line.kind = "Col" -> Col(cell) = line.n
      [] line.kind = "DiagonalUp" -> Row(cell) + Col(cell) = 2
      [] OTHER -> Row(cell) = Col(cell)

\* Board::cells: the cells in index order
CellSeq == [i \in 1 .. 9 |-> i - 1]

\* Board::line: cells() filtered by line.matches
LineCells(line) == SelectSeq(CellSeq, LAMBDA c : Matches(line, c))

\* Iterator::reduce(|acc, curr| if acc == curr { acc } else { None }) over
\* the controlling players of the cells of the line, then flatten()
RECURSIVE Reduce(_, _, _)
Reduce(vals, i, acc) ==
    IF i > Len(vals) THEN acc
    ELSE Reduce(vals, i + 1, IF acc = vals[i] THEN acc ELSE None)

\* Mutant of the reduce of look_for_victory: only the first two cells of the
\* line are compared.
LineWinner_two_of_three(b, line) ==
    LET cs == LineCells(line)
        vals == [i \in 1 .. 2 |-> ControlledBy(b[cs[i]])]
    IN Reduce(vals, 2, vals[1])

LineWinner(b, line) ==
    LET cs == LineCells(line)
        vals == [i \in 1 .. Len(cs) |-> ControlledBy(b[cs[i]])]
    IN IF Len(vals) = 0 THEN None ELSE Reduce(vals, 2, vals[1])

\* struct Victory { player, line }; NoVictory is Option::<Victory>::None
NoVictory == [player |-> None, line |-> NoLine]

\* look_for_victory: the loop over Line::all with its early return
RECURSIVE VictoryLoop(_, _, _, _)
VictoryLoop(b, last_moving_player, i, win_for_last_moving_player) ==
    IF i > Len(AllLines)
    THEN IF win_for_last_moving_player = NoLine THEN NoVictory
         ELSE [player |-> last_moving_player,
               line |-> win_for_last_moving_player]
    ELSE LET line == AllLines[i]
             winner == LineWinner(b, line)
         IN IF winner = None
            THEN VictoryLoop(b, last_moving_player, i + 1,
                             win_for_last_moving_player)
            ELSE IF winner = Not(last_moving_player)
            THEN [player |-> Not(last_moving_player), line |-> line]
            ELSE VictoryLoop(b, last_moving_player, i + 1,
                             IF win_for_last_moving_player = NoLine
                             THEN line ELSE win_for_last_moving_player)

\* Mutant of look_for_victory: the last-moving player's line is preferred.
look_for_victory_mover_first(b, last_moving_player) ==
    LET first == VictoryLoop(b, Not(last_moving_player), 1, NoLine)
    IN IF first.player = last_moving_player THEN first
       ELSE VictoryLoop(b, last_moving_player, 1, NoLine)

\* Mutant of look_for_victory: a line of the opponent is not reported.
look_for_victory_mover_only(b, last_moving_player) ==
    LET first == VictoryLoop(b, Not(last_moving_player), 1, NoLine)
    IN IF first.player = last_moving_player THEN first ELSE NoVictory

look_for_victory(b, last_moving_player) ==
    VictoryLoop(b, last_moving_player, 1, NoLine)

\* const STARTING_INVENTORY: usize = 2
STARTING_INVENTORY == 2

\* struct Move { player, size, source, target }
NoMove == [player |-> None, size |-> NoSize, source |-> NoCell,
           target |-> NoCell]

\* Moves submitted under Spec: either player, a Small or Medium piece, from
\* the inventory or from a cell of row 0, to a cell of row 0.
PlayCells == {At(0, 0), At(0, 1), At(0, 2)}
PlaySizes == {Small, Medium}
Moves ==
    [player : Players, size : PlaySizes,
     source : PlayCells \cup {NoCell}, target : PlayCells]

\* Moves submitted under SpecUncover: Player Two places on row 0, Player One
\* places on (0,0), (1,1), (1,2), and either player may carry a piece from
\* (0,0) to (1,0).
UncoverMoves ==
    [player : {Two}, size : PlaySizes, source : {NoCell},
     target : {At(0, 0), At(0, 1), At(0, 2)}]
    \cup [player : {One}, size : PlaySizes, source : {NoCell},
          target : {At(0, 0), At(1, 1), At(1, 2)}]
    \cup [player : Players, size : PlaySizes, source : {At(0, 0)},
          target : {At(1, 0)}]

\* Moves submitted under SpecScenario: Player One places on row 0, Player Two
\* places on (0,0), (1,1), (1,2), either player may carry a piece from (0,0)
\* to (1,0); the pieces are Small or Large.
ScenarioSizes == {Small, Large}
ScenarioMoves ==
    [player : {One}, size : ScenarioSizes, source : {NoCell},
     target : {At(0, 0), At(0, 1), At(0, 2)}]
    \cup [player : {Two}, size : ScenarioSizes, source : {NoCell},
          target : {At(0, 0), At(1, 1), At(1, 2)}]
    \cup [player : Players, size : ScenarioSizes, source : {At(0, 0)},
          target : {At(1, 0)}]

\* Moves submitted under SpecLoop: Player One places a Small piece on (0,0)
\* and Medium pieces on (0,1) and (0,2) and carries a Small piece between
\* (0,0) and (1,0); Player Two places a Small piece on (2,2) and carries it
\* between (2,2) and (2,1).
LoopMoves ==
    {[player |-> One, size |-> Small, source |-> NoCell, target |-> At(0, 0)],
     [player |-> One, size |-> Medium, source |-> NoCell, target |-> At(0, 1)],
     [player |-> One, size |-> Medium, source |-> NoCell, target |-> At(0, 2)],
     [player |-> One, size |-> Small, source |-> At(0, 0), target |-> At(1, 0)],
     [player |-> One, size |-> Small, source |-> At(1, 0), target |-> At(0, 0)],
     [player |-> Two, size |-> Small, source |-> NoCell, target |-> At(2, 2)],
     [player |-> Two, size |-> Small, source |-> At(2, 2), target |-> At(2, 1)],
     [player |-> Two, size |-> Small, source |-> At(2, 1), target |-> At(2, 2)]}

\* Every move a caller can build with Move::new
AllMoves ==
    [player : Players, size : Sizes, source : Cells \cup {NoCell},
     target : Cells]

\* ------------------------------------------------------------------ text
\* A text is a sequence of characters, a character a string of length 1.
Digits == <<"0", "1", "2", "3", "4", "5", "6", "7", "8", "9">>
DigitChars == {Digits[i] : i \in 1 .. 10}
DigitValue(ch) == (CHOOSE i \in 1 .. 10 : Digits[i] = ch) - 1

\* Display of a u8 below 10
FmtDigit(n) == <<Digits[n + 1]>>

\* Player::player_number and impl Display for Player ({} and {:#})
PlayerFmt(p, alternate) ==
    (IF alternate THEN <<"P">> ELSE <<"P", "l", "a", "y", "e", "r", " ">>)
    \o (IF p = One THEN <<"1">> ELSE <<"2">>)

\* impl Display for Size ({} and {:#})
SizeName(s) ==
    IF s = Small THEN <<"S", "m", "a", "l", "l">>
    ELSE IF s = Medium THEN <<"M", "e", "d", "i", "u", "m">>
    ELSE <<"L", "a", "r", "g", "e">>
SizeFmt(s, alternate) ==
    IF alternate THEN SubSeq(SizeName(s), 1, 1) ELSE SizeName(s)

\* impl Display for Cell: "r{}c{}"
CellFmt(cell) == <<"r">> \o FmtDigit(Row(cell)) \o <<"c">> \o FmtDigit(Col(cell))

\* impl Display for Move: "{}: {} " player size, source or Inventory, " > {}"
MoveFmt(m) ==
    PlayerFmt(m.player, FALSE) \o <<":", " ">> \o SizeFmt(m.size, FALSE)
    \o <<" ">>
    \o (IF m.source /= NoCell THEN CellFmt(m.source)
        ELSE <<"I", "n", "v", "e", "n", "t", "o", "r", "y">>)
    \o <<" ", ">", " ">> \o CellFmt(m.target)

\* impl Display for CellState: four blanks, or "{:#}-{:#}" of the controlling
\* player and the size; "panic" where the expect on size() fails
CellStateFmt(state) ==
    IF ControlledBy(state) = None THEN <<" ", " ", " ", " ">>
    ELSE IF SizeOf(state) = NoSize THEN <<"panic">>
    ELSE PlayerFmt(ControlledBy(state), TRUE) \o <<"-">>
         \o SizeFmt(SizeOf(state), TRUE)

\* str::split_ascii_whitespace
AsciiWhitespace == {" ", "\t", "\n", "\f", "\r"}
RECURSIVE SplitLoop(_, _, _, _)
SplitLoop(s, i, cur, acc) ==
    IF i > Len(s)
    THEN IF cur = << >> THEN acc ELSE Append(acc, cur)
    ELSE IF s[i] \in AsciiWhitespace
    THEN SplitLoop(s, i + 1, << >>,
                   IF cur = << >> THEN acc ELSE Append(acc, cur))
    ELSE SplitLoop(s, i + 1, Append(cur, s[i]), acc)
SplitAsciiWhitespace(s) == SplitLoop(s, 1, << >>, << >>)

\* str::parse::<u8>: an optional "+", then digits, at most 255; -1 on error
RECURSIVE DigitsValue(_, _, _)
DigitsValue(s, i, acc) ==
    IF i > Len(s) THEN acc
    ELSE IF s[i] \notin DigitChars THEN -1
    ELSE IF acc * 10 + DigitValue(s[i]) > 255 THEN -1
    ELSE DigitsValue(s, i + 1, acc * 10 + DigitValue(s[i]))
ParseU8(s) ==
    LET body == IF Len(s) > 0 /\ s[1] = "+" THEN SubSeq(s, 2, Len(s)) ELSE s
    IN IF Len(body) = 0 THEN -1 ELSE DigitsValue(body, 1, 0)

\* Result<Cell, ParseCellError> and Result<Move, ParseMoveError>
ParsedCell(cell) == [ok |-> TRUE, cell |-> cell, err |-> None]
ParseCellErr(e) == [ok |-> FALSE, cell |-> NoCell, err |-> e]
ParsedMove(m) == [ok |-> TRUE, move |-> m, err |-> None, n |-> 0]
ParseMoveErr(e, n) == [ok |-> FALSE, move |-> NoMove, err |-> e, n |-> n]

\* str::split_once(","): the index of the first comma, 0 if there is none
FirstComma(s) ==
    IF \E i \in 1 .. Len(s) : s[i] = ","
    THEN CHOOSE i \in 1 .. Len(s) :
             s[i] = "," /\ \A j \in 1 .. i - 1 : s[j] /= ","
    ELSE 0

\* parse_cell
parse_cell(s) ==
    LET k == FirstComma(s)
    IN IF k = 0 THEN ParseCellErr("TooFewParts")
       ELSE LET row == ParseU8(SubSeq(s, 1, k - 1))
                col == ParseU8(SubSeq(s, k + 1, Len(s)))
            IN IF row = -1 THEN ParseCellErr("InvalidRow")
               ELSE IF col = -1 THEN ParseCellErr("InvalidColumn")
               ELSE IF CellNew(row, col).ok
               THEN ParsedCell(CellNew(row, col).cell)
               ELSE ParseCellErr("OutOfBounds")

\* parse_source
parse_source(s) == IF s = <<"_">> THEN ParsedCell(NoCell) ELSE parse_cell(s)

\* parse_player and parse_size; None on error
parse_player(s) ==
    IF s = <<"P", "1">> \/ s = <<"p", "1">> THEN One
    ELSE IF s = <<"P", "2">> \/ s = <<"p", "2">> THEN Two
    ELSE None
parse_size(s) ==
    IF s = <<"S">> \/ s = <<"s">> THEN Small
    ELSE IF s = <<"M">> \/ s = <<"m">> THEN Medium
    ELSE IF s = <<"L">> \/ s = <<"l">> THEN Large
    ELSE NoSize

\* impl FromStr for Move
MoveFromStr(s) ==
    LET parts == SplitAsciiWhitespace(s)
        num_parts == Len(parts)
    IN IF num_parts < 5 THEN ParseMoveErr("TooFewParts", num_parts)
       ELSE IF num_parts > 5 THEN ParseMoveErr("TooManyParts", num_parts)
       ELSE IF parse_player(parts[1]) = None
       THEN ParseMoveErr("InvalidPlayer", 0)
       ELSE IF parse_size(parts[2]) = NoSize
       THEN ParseMoveErr("InvalidSize", 0)
       ELSE IF ~parse_source(parts[3]).ok
       THEN ParseMoveErr("InvalidSource", 0)
       ELSE IF ~parse_cell(parts[5]).ok
       THEN ParseMoveErr("InvalidTarget", 0)
       ELSE ParsedMove([player |-> parse_player(parts[1]),
                        size |-> parse_size(parts[2]),
                        source |-> parse_source(parts[3]).cell,
                        target |-> parse_cell(parts[5]).cell])

\* Result<Option<Victory>, SubmitMoveError>
Ok(v) == [tag |-> "Ok", err |-> None, victory |-> v]
Err(e) == [tag |-> "Err", err |-> e, victory |-> NoVictory]
NoResult == [tag |-> "None", err |-> None, victory |-> NoVictory]

\* Option<Box<dyn Display>> of main: a ParseMoveError or a SubmitMoveError
NoError == [kind |-> "None", err |-> None, n |-> 0]
ParseError(e) == [kind |-> "Parse", err |-> e.err, n |-> e.n]
SubmitError(e) == [kind |-> "Submit", err |-> e, n |-> 0]

\* What main prints, as far as it is recorded here: per turn the prompt of
\* the player to move, at the end the victory or "No winner".
NoPrint == [kind |-> "None", prompt |-> None, victory |-> NoVictory]
PrintTurn(p) == [kind |-> "turn", prompt |-> p, victory |-> NoVictory]
PrintVictory(v) == [kind |-> "victory", prompt |-> None, victory |-> v]
PrintNoWinner == [kind |-> "no winner", prompt |-> None,
                  victory |-> NoVictory]

\* Lines typed on standard input under SpecMain: a size, a source ("_" or
\* "0,0"), ">" and a cell of row 0, then a newline; and lines that do not
\* parse: nothing at all (end of input), an unknown size, a target off the
\* board.
CellText(r, c) == FmtDigit(r) \o <<",">> \o FmtDigit(c)
TypedLine(size, source, target) ==
    size \o <<" ">> \o source \o <<" ", ">", " ">> \o target \o <<"\n">>
Lines ==
    {TypedLine(sz, src, tgt) :
        sz \in {<<"S">>, <<"m">>}, src \in {<<"_">>, CellText(0, 0)},
        tgt \in {CellText(0, 0), CellText(0, 1), CellText(0, 2)}}
    \cup {<< >>,
          TypedLine(<<"X">>, <<"_">>, CellText(0, 0)),
          TypedLine(<<"S">>, <<"_">>, CellText(3, 0))}

\* format!("{:#} ", game.next_player()) followed by the line read, parsed
ParsedLine ==
    [p \in Players, line \in Lines |->
        MoveFromStr(PlayerFmt(p, TRUE) \o <<" ">> \o line)]

\* A call of one of the pure functions of the crate (SpecCalls) and what it
\* returned; NoCall and NoRet while no such call is made.
NoCall == [fn |-> "None"]
NoRet == [done |-> FALSE]
Ret(x) == [done |-> TRUE, val |-> x]

\* ----------------------------------------------------------------- state
VARIABLES
    board,      \* Game.board
    moves,      \* Game.moves
    victory,    \* Game.victory
    mv,         \* argument of the latest submit call
    result,     \* return value of the latest submit call
    call,       \* pure function called, with its arguments
    ret,        \* value returned by that call
    pc,         \* position of main of gobblet-terminal
    last_move_error,    \* main's last_move_error
    printed     \* what main wrote to the terminal in its latest step

vars == <<board, moves, victory, mv, result, call, ret, pc, last_move_error,
          printed>>

\* Game::default()
Init ==
    /\ board = EmptyBoard
    /\ moves = << >>
    /\ victory = NoVictory
    /\ mv = NoMove
    /\ result = NoResult
    /\ call = NoCall
    /\ ret = NoRet
    /\ pc = "none"
    /\ last_move_error = NoError
    /\ printed = NoPrint

\* Mutant of Game::next_player: the negation of the last mover is dropped.
NextPlayerOf_no_negation(ms) ==
    IF Len(ms) = 0 THEN One ELSE ms[Len(ms)].player

\* Game::next_player
NextPlayerOf(ms) == IF Len(ms) = 0 THEN One ELSE Not(ms[Len(ms)].player)
next_player == NextPlayerOf(moves)

\* Game::outcome
outcome == victory

\* Mutant of in_play: only pieces that are on top of their cell are counted.
InPlay_visible_only(b, p, s) ==
    Cardinality({c \in Cells : b[c][s] = p /\ SizeOf(b[c]) = s})

\* in_play: cells whose slot of the size holds the player
InPlay(b, p, s) == Cardinality({c \in Cells : b[c][s] = p})

\* Mutant of the validation of Game::submit: the GameOver check is missing.
Validate_no_game_over(b, ms, v, m) ==
    IF NextPlayerOf(ms) /= m.player THEN "OutOfTurn"
    ELSE IF m.source /= NoCell /\ b[m.source][m.size] /= m.player
    THEN "PieceNotAtSource"
    ELSE IF m.source /= NoCell /\ SizeOf(b[m.source]) /= NoSize
            /\ SizeOf(b[m.source]) > m.size
    THEN "PieceBlockedAtSource"
    ELSE IF m.source = NoCell
            /\ InPlay(b, m.player, m.size) >= STARTING_INVENTORY
    THEN "PieceNotInInventory"
    ELSE IF SizeOf(b[m.target]) /= NoSize /\ SizeOf(b[m.target]) >= m.size
    THEN "TargetBlocked"
    ELSE "Ok"

\* Mutant of the validation of Game::submit: the inventory check uses > for >=.
Validate_inventory_off_by_one(b, ms, v, m) ==
    IF v /= NoVictory THEN "GameOver"
    ELSE IF NextPlayerOf(ms) /= m.player THEN "OutOfTurn"
    ELSE IF m.source /= NoCell /\ b[m.source][m.size] /= m.player
    THEN "PieceNotAtSource"
    ELSE IF m.source /= NoCell /\ SizeOf(b[m.source]) /= NoSize
            /\ SizeOf(b[m.source]) > m.size
    THEN "PieceBlockedAtSource"
    ELSE IF m.source = NoCell
            /\ InPlay(b, m.player, m.size) > STARTING_INVENTORY
    THEN "PieceNotInInventory"
    ELSE IF SizeOf(b[m.target]) /= NoSize /\ SizeOf(b[m.target]) >= m.size
    THEN "TargetBlocked"
    ELSE "Ok"

\* Mutant of the validation of Game::submit: the target check uses > for >=.
Validate_target_gt(b, ms, v, m) ==
    IF v /= NoVictory THEN "GameOver"
    ELSE IF NextPlayerOf(ms) /= m.player THEN "OutOfTurn"
    ELSE IF m.source /= NoCell /\ b[m.source][m.size] /= m.player
    THEN "PieceNotAtSource"
    ELSE IF m.source /= NoCell /\ SizeOf(b[m.source]) /= NoSize
            /\ SizeOf(b[m.source]) > m.size
    THEN "PieceBlockedAtSource"
    ELSE IF m.source = NoCell
            /\ InPlay(b, m.player, m.size) >= STARTING_INVENTORY
    THEN "PieceNotInInventory"
    ELSE IF SizeOf(b[m.target]) /= NoSize /\ SizeOf(b[m.target]) > m.size
    THEN "TargetBlocked"
    ELSE "Ok"

\* Mutant of the validation of Game::submit: the buried-piece check is missing.
Validate_no_blocked_check(b, ms, v, m) ==
    IF v /= NoVictory THEN "GameOver"
    ELSE IF NextPlayerOf(ms) /= m.player THEN "OutOfTurn"
    ELSE IF m.source /= NoCell /\ b[m.source][m.size] /= m.player
    THEN "PieceNotAtSource"
    ELSE IF m.source = NoCell
            /\ InPlay(b, m.player, m.size) >= STARTING_INVENTORY
    THEN "PieceNotInInventory"
    ELSE IF SizeOf(b[m.target]) /= NoSize /\ SizeOf(b[m.target]) >= m.size
    THEN "TargetBlocked"
    ELSE "Ok"

\* Mutant of the validation of Game::submit: the target check runs before
\* the source checks.
Validate_target_first(b, ms, v, m) ==
    IF v /= NoVictory THEN "GameOver"
    ELSE IF NextPlayerOf(ms) /= m.player THEN "OutOfTurn"
    ELSE IF SizeOf(b[m.target]) /= NoSize /\ SizeOf(b[m.target]) >= m.size
    THEN "TargetBlocked"
    ELSE IF m.source /= NoCell /\ b[m.source][m.size] /= m.player
    THEN "PieceNotAtSource"
    ELSE IF m.source /= NoCell /\ SizeOf(b[m.source]) /= NoSize
            /\ SizeOf(b[m.source]) > m.size
    THEN "PieceBlockedAtSource"
    ELSE IF m.source = NoCell
            /\ InPlay(b, m.player, m.size) >= STARTING_INVENTORY
    THEN "PieceNotInInventory"
    ELSE "Ok"

\* Mutant of the validation of Game::submit: an empty target counts as
\* blocked (unwrap_or(true)).
Validate_empty_target_blocked(b, ms, v, m) ==
    IF v /= NoVictory THEN "GameOver"
    ELSE IF NextPlayerOf(ms) /= m.player THEN "OutOfTurn"
    ELSE IF m.source /= NoCell /\ b[m.source][m.size] /= m.player
    THEN "PieceNotAtSource"
    ELSE IF m.source /= NoCell /\ SizeOf(b[m.source]) /= NoSize
            /\ SizeOf(b[m.source]) > m.size
    THEN "PieceBlockedAtSource"
    ELSE IF m.source = NoCell
            /\ InPlay(b, m.player, m.size) >= STARTING_INVENTORY
    THEN "PieceNotInInventory"
    ELSE IF SizeOf(b[m.target]) = NoSize \/ SizeOf(b[m.target]) >= m.size
    THEN "TargetBlocked"
    ELSE "Ok"

\* Mutant of the validation of Game::submit: the game is over after eight
\* moves.
Validate_move_limit(b, ms, v, m) ==
    IF v /= NoVictory \/ Len(ms) >= 8 THEN "GameOver"
    ELSE IF NextPlayerOf(ms) /= m.player THEN "OutOfTurn"
    ELSE IF m.source /= NoCell /\ b[m.source][m.size] /= m.player
    THEN "PieceNotAtSource"
    ELSE IF m.source /= NoCell /\ SizeOf(b[m.source]) /= NoSize
            /\ SizeOf(b[m.source]) > m.size
    THEN "PieceBlockedAtSource"
    ELSE IF m.source = NoCell
            /\ InPlay(b, m.player, m.size) >= STARTING_INVENTORY
    THEN "PieceNotInInventory"
    ELSE IF SizeOf(b[m.target]) /= NoSize /\ SizeOf(b[m.target]) >= m.size
    THEN "TargetBlocked"
    ELSE "Ok"

\* The validation part of Game::submit: the first failing check, or "Ok"
Validate(b, ms, v, m) ==
    IF v /= NoVictory THEN "GameOver"
    ELSE IF NextPlayerOf(ms) /= m.player THEN "OutOfTurn"
    ELSE IF m.source /= NoCell /\ b[m.source][m.size] /= m.player
    THEN "PieceNotAtSource"
    ELSE IF m.source /= NoCell /\ SizeOf(b[m.source]) /= NoSize
            /\ SizeOf(b[m.source]) > m.size
    THEN "PieceBlockedAtSource"
    ELSE IF m.source = NoCell
            /\ InPlay(b, m.player, m.size) >= STARTING_INVENTORY
    THEN "PieceNotInInventory"
    ELSE IF SizeOf(b[m.target]) /= NoSize /\ SizeOf(b[m.target]) >= m.size
    THEN "TargetBlocked"
    ELSE "Ok"

\* Mutant of the board writes of Game::submit: the moved piece captures what
\* it covers.
Apply_captures(b, m) ==
    LET b1 == IF m.source /= NoCell
              THEN [b EXCEPT ![m.source][m.size] = None]
              ELSE b
    IN [b1 EXCEPT ![m.target] =
           [s \in Sizes |-> IF s = m.size THEN m.player ELSE None]]

\* Mutant of the board writes of Game::submit: the source slot is not
\* cleared.
Apply_keeps_source(b, m) ==
    [b EXCEPT ![m.target][m.size] = m.player]

\* The two board writes of Game::submit, in program order
Apply(b, m) ==
    LET b1 == IF m.source /= NoCell
              THEN [b EXCEPT ![m.source][m.size] = None]
              ELSE b
    IN [b1 EXCEPT ![m.target][m.size] = m.player]

\* Mutant of Game::submit: the source slot is cleared before the target check.
submit_clears_source_early(m) ==
    /\ mv' = m
    /\ LET e == Validate(board, moves, victory, m)
       IN IF e = "TargetBlocked"
          THEN /\ result' = Err(e)
               /\ board' = IF m.source /= NoCell
                           THEN [board EXCEPT ![m.source][m.size] = None]
                           ELSE board
               /\ UNCHANGED <<moves, victory>>
          ELSE IF e /= "Ok"
          THEN /\ result' = Err(e)
               /\ UNCHANGED <<board, moves, victory>>
          ELSE LET b2 == Apply(board, m)
                   v == look_for_victory(b2, m.player)
               IN /\ board' = b2
                  /\ moves' = Append(moves, m)
                  /\ victory' = v
                  /\ result' = Ok(v)
    /\ UNCHANGED <<call, ret>>

\* Mutant of Game::submit: a move that ends the game is not pushed to the
\* history.
submit_no_push_on_victory(m) ==
    /\ mv' = m
    /\ LET e == Validate(board, moves, victory, m)
       IN IF e /= "Ok"
          THEN /\ result' = Err(e)
               /\ UNCHANGED <<board, moves, victory>>
          ELSE LET b2 == Apply(board, m)
                   v == look_for_victory(b2, m.player)
               IN /\ board' = b2
                  /\ moves' = IF v = NoVictory THEN Append(moves, m) ELSE moves
                  /\ victory' = v
                  /\ result' = Ok(v)
    /\ UNCHANGED <<call, ret>>

\* Game::submit
submit(m) ==
    /\ mv' = m
    /\ LET e == Validate(board, moves, victory, m)
       IN IF e /= "Ok"
          THEN /\ result' = Err(e)
               /\ UNCHANGED <<board, moves, victory>>
          ELSE LET b2 == Apply(board, m)
                   v == look_for_victory(b2, m.player)
               IN /\ board' = b2
                  /\ moves' = Append(moves, m)
                  /\ victory' = v
                  /\ result' = Ok(v)
    /\ UNCHANGED <<call, ret>>

\* A caller submits a move of Moves; the history is capped at MaxMoves
\* (a finished game no longer grows its history).
Play(m) ==
    /\ Len(moves) < MaxMoves \/ (victory /= NoVictory /\ Len(moves) <= MaxMoves)
    /\ submit(m)
    /\ UNCHANGED <<pc, last_move_error, printed>>

Next == \E m \in Moves : Play(m)

Spec == Init /\ [][Next]_vars

\* A caller submits a move of UncoverMoves; the history is capped at
\* MaxUncoverMoves.
PlayUncover(m) ==
    /\ Len(moves) < MaxUncoverMoves
       \/ (victory /= NoVictory /\ Len(moves) <= MaxUncoverMoves)
    /\ submit(m)
    /\ UNCHANGED <<pc, last_move_error, printed>>

NextUncover == \E m \in UncoverMoves : PlayUncover(m)

SpecUncover == Init /\ [][NextUncover]_vars

\* ------------------------------------------------- calls of pure functions
\* Boards handed to look_for_victory under SpecCalls: every cell is empty or
\* holds one piece, and a player's pieces are, in cell order, two Small, two
\* Medium and two Large ones.
Controllers ==
    {ctl \in [Cells -> Players \cup {None}] :
        \A p \in Players : Cardinality({c \in Cells : ctl[c] = p}) <= 6}
PieceSize(ctl, c) ==
    (Cardinality({d \in Cells : d <= c /\ ctl[d] = ctl[c]}) + 1) \div 2
BoardOf(ctl) ==
    [c \in Cells |->
        [s \in Sizes |->
            IF ctl[c] /= None /\ s = PieceSize(ctl, c) THEN ctl[c] ELSE None]]

\* One call of a pure function, its arguments drawn from bounded sets.
InitCalls ==
    /\ board = EmptyBoard
    /\ moves = << >>
    /\ victory = NoVictory
    /\ mv = NoMove
    /\ result = NoResult
    /\ ret = NoRet
    /\ pc = "none"
    /\ last_move_error = NoError
    /\ printed = NoPrint
    /\ \/ \E r \in 0 .. MaxCoord, c \in 0 .. MaxCoord :
              call = [fn |-> "Cell::new", row |-> r, col |-> c]
       \/ \E st \in [Sizes -> Players \cup {None}] :
              call = [fn |-> "CellState", state |-> st]
       \/ \E i \in 1 .. Len(AllLines) :
              call = [fn |-> "Board::line", line |-> AllLines[i]]
       \/ \E m \in AllMoves :
              call = [fn |-> "Move::from_str", move |-> m]
       \/ \E ctl \in Controllers, p \in Players :
              call = [fn |-> "look_for_victory", board |-> BoardOf(ctl),
                      player |-> p]

\* Cell::new(row, col)
CallCellNew ==
    /\ call.fn = "Cell::new" /\ ~ret.done
    /\ ret' = Ret(CellNew(call.row, call.col))
    /\ UNCHANGED <<board, moves, victory, mv, result, call, pc,
                   last_move_error, printed>>

\* CellState::size, CellState::controlled_by and the Display of a cell state
CallCellState ==
    /\ call.fn = "CellState" /\ ~ret.done
    /\ ret' = Ret([size |-> SizeOf(call.state),
                   controlled_by |-> ControlledBy(call.state),
                   display |-> CellStateFmt(call.state)])
    /\ UNCHANGED <<board, moves, victory, mv, result, call, pc,
                   last_move_error, printed>>

\* Board::line(line), the cells it yields
CallBoardLine ==
    /\ call.fn = "Board::line" /\ ~ret.done
    /\ ret' = Ret(LineCells(call.line))
    /\ UNCHANGED <<board, moves, victory, mv, result, call, pc,
                   last_move_error, printed>>

\* move.to_string().parse::<Move>()
CallMoveFromStr ==
    /\ call.fn = "Move::from_str" /\ ~ret.done
    /\ ret' = Ret(MoveFromStr(MoveFmt(call.move)))
    /\ UNCHANGED <<board, moves, victory, mv, result, call, pc,
                   last_move_error, printed>>

\* look_for_victory(board, last_moving_player)
CallLookForVictory ==
    /\ call.fn = "look_for_victory" /\ ~ret.done
    /\ ret' = Ret(look_for_victory(call.board, call.player))
    /\ UNCHANGED <<board, moves, victory, mv, result, call, pc,
                   last_move_error, printed>>

NextCalls ==
    \/ CallCellNew
    \/ CallCellState
    \/ CallBoardLine
    \/ CallMoveFromStr
    \/ CallLookForVictory

SpecCalls == InitCalls /\ [][NextCalls]_vars

\* A caller submits a move of ScenarioMoves; the history is capped at
\* MaxScenarioMoves.
PlayScenario(m) ==
    /\ Len(moves) < MaxScenarioMoves
       \/ (victory /= NoVictory /\ Len(moves) <= MaxScenarioMoves)
    /\ submit(m)
    /\ UNCHANGED <<pc, last_move_error, printed>>

NextScenario == \E m \in ScenarioMoves : PlayScenario(m)

SpecScenario == Init /\ [][NextScenario]_vars

\* A caller submits a move of LoopMoves; the history is capped at
\* MaxLoopMoves.
PlayLoop(m) ==
    /\ Len(moves) < MaxLoopMoves
       \/ (victory /= NoVictory /\ Len(moves) <= MaxLoopMoves)
    /\ submit(m)
    /\ UNCHANGED <<pc, last_move_error, printed>>

NextLoop == \E m \in LoopMoves : PlayLoop(m)

SpecLoop == Init /\ [][NextLoop]_vars

\* ------------------------------------------------- main of gobblet-terminal
\* let mut game = Game::default(); let mut last_move_error = None;
InitMain ==
    /\ board = EmptyBoard
    /\ moves = << >>
    /\ victory = NoVictory
    /\ mv = NoMove
    /\ result = NoResult
    /\ call = NoCall
    /\ ret = NoRet
    /\ pc = "loop"
    /\ last_move_error = NoError
    /\ printed = NoPrint

\* One turn of the while loop of main: the board, the last error and the
\* prompt are printed, the line read is prefixed with the player to move,
\* parsed and submitted. The history is capped at MaxMainMoves.
MainIteration(line) ==
    /\ pc = "loop"
    /\ outcome = NoVictory
    /\ Len(moves) < MaxMainMoves
    /\ printed' = PrintTurn(next_player)
    /\ LET parsed == ParsedLine[next_player, line]
       IN IF ~parsed.ok
          THEN /\ last_move_error' = ParseError(parsed)
               /\ UNCHANGED <<board, moves, victory, mv, result, call, ret>>
          ELSE /\ submit(parsed.move)
               /\ last_move_error' = IF result'.tag = "Err"
                                     THEN SubmitError(result'.err)
                                     ELSE NoError
    /\ pc' = "loop"

\* The ? on io::stdout().flush() and on read_line: main returns the error
MainIoError ==
    /\ pc = "loop"
    /\ outcome = NoVictory
    /\ pc' = "failed"
    /\ printed' = PrintTurn(next_player)
    /\ last_move_error' = NoError
    /\ UNCHANGED <<board, moves, victory, mv, result, call, ret>>

\* The loop condition fails: the victory, or "No winner", is printed and main
\* returns Ok(())
MainExit ==
    /\ pc = "loop"
    /\ outcome /= NoVictory
    /\ pc' = "done"
    /\ printed' = IF outcome /= NoVictory THEN PrintVictory(outcome)
                  ELSE PrintNoWinner
    /\ UNCHANGED <<board, moves, victory, mv, result, call, ret,
                   last_move_error>>

NextMain ==
    \/ \E line \in Lines : MainIteration(line)
    \/ MainIoError
    \/ MainExit

SpecMain == InitMain /\ [][NextMain]_vars

\* ------------------------------------------------- vocabulary of the claims
\* The other player.
Other(p) == IF p = One THEN Two ELSE One

\* The sizes occupied in a cell state, its top size and its controlling player.
Occupied(cs) == {s \in Sizes : cs[s] \in Players}
TopSize(cs) ==
    IF Occupied(cs) = {} THEN NoSize
    ELSE CHOOSE s \in Occupied(cs) : \A t \in Occupied(cs) : t <= s
TopPlayer(cs) == IF Occupied(cs) = {} THEN None ELSE cs[TopSize(cs)]

\* The player to move, read off the history.
Turn == IF moves = << >> THEN One ELSE Other(moves[Len(moves)].player)

\* Number of cells whose size-s slot holds p.
Held(b, p, s) == Cardinality({c \in Cells : b[c][s] = p})

\* The 8 lines as sets of cells, and the cells of a reported line.
WinLines ==
    {{0, 1, 2}, {3, 4, 5}, {6, 7, 8}, {0, 3, 6}, {1, 4, 7}, {2, 5, 8},
     {2, 4, 6}, {0, 4, 8}}
CellsOf(line) ==
    CASE line.kind = "Row" -> {3 * line.n, 3 * line.n + 1, 3 * line.n + 2}
      [] line.kind = "Col" -> {line.n, line.n + 3, line.n + 6}
      [] line.kind = "DiagonalUp" -> {2, 4, 6}
      [] line.kind = "DiagonalDown" -> {0, 4, 8}
      [] OTHER -> {}
Completed(b, p) == {L \in WinLines : \A c \in L : TopPlayer(b[c]) = p}

\* The failing conditions of a submitted move m, on the state before the call.
IsOver == victory /= NoVictory
IsOutOfTurn(m) == m.player /= Turn
IsNotAtSource(m) == m.source /= NoCell /\ board[m.source][m.size] /= m.player
IsBlockedAtSource(m) ==
    m.source /= NoCell /\ TopSize(board[m.source]) > m.size
IsNotInInventory(m) ==
    m.source = NoCell /\ Held(board, m.player, m.size) >= 2
IsTargetBlocked(m) ==
    Occupied(board[m.target]) /= {} /\ TopSize(board[m.target]) >= m.size

\* ------------------------------------------------------------------ claims

\* C1: whenever submit returns an error, the board, the move history and the
\* outcome are the same after the call as before it.
C1_RejectedSubmitChangesNothing ==
    [][result'.tag = "Err" =>
          /\ result'.err \in {"GameOver", "OutOfTurn", "PieceNotAtSource",
                              "PieceBlockedAtSource", "PieceNotInInventory",
                              "TargetBlocked"}
          /\ board' = board
          /\ moves' = moves
          /\ victory' = victory]_vars

\* C1 witness: a relocation with a piece at its source was rejected because
\* its target is blocked.
C1_Witness ==
    /\ result.tag = "Err"
    /\ result.err = "TargetBlocked"
    /\ mv.source /= NoCell
    /\ board[mv.source][mv.size] = mv.player

\* C2: a submit that returns a victory makes it the outcome, and from then on
\* every submit returns GameOver and the outcome stays that victory.
C2_EndedIsTerminal ==
    [][/\ (result'.tag = "Ok" /\ result'.victory /= NoVictory)
              => victory' = result'.victory
       /\ victory /= NoVictory
              => /\ result'.tag = "Err"
                 /\ result'.err = "GameOver"
                 /\ victory' = victory
                 /\ moves' = moves]_vars

\* C2 witness: a move by the player to move was rejected with GameOver.
C2_Witness ==
    /\ victory /= NoVictory
    /\ result.tag = "Err"
    /\ result.err = "GameOver"
    /\ mv.player = Turn

\* C3: after an accepted move the returned victory goes to the opponent of
\* the mover if the opponent completes a line on the new board, else to the
\* mover if the mover completes a line, else there is none; the reported
\* line is one the winner completes.
C3_VictoryPrecedence ==
    [][result'.tag = "Ok" =>
          LET p == mv'.player
              q == Other(p)
              v == result'.victory
          IN IF Completed(board', q) /= {}
             THEN v.player = q /\ CellsOf(v.line) \in Completed(board', q)
             ELSE IF Completed(board', p) /= {}
             THEN v.player = p /\ CellsOf(v.line) \in Completed(board', p)
             ELSE v = NoVictory]_vars

\* C3 witness: the accepted move completed a line for the mover and one for
\* the opponent, and the opponent was declared the winner.
C3_Witness ==
    /\ result.tag = "Ok"
    /\ Completed(board, mv.player) /= {}
    /\ Completed(board, Other(mv.player)) /= {}
    /\ result.victory.player = Other(mv.player)

\* C4: next_player() is One on a new game, becomes the other player after
\* each accepted move, is unchanged by a rejected move, and the history is
\* played by One, Two, One, Two, ...
C4_TurnsAlternate ==
    /\ next_player = One
    /\ [][/\ result'.tag = "Ok"
                 => /\ mv'.player = next_player
                    /\ next_player' = Other(mv'.player)
          /\ result'.tag = "Err" => next_player' = next_player]_vars
    /\ [](\A i \in 1 .. Len(moves) :
              moves[i].player = IF i % 2 = 1 THEN One ELSE Two)

\* C4 witness: both players have moved twice and a move was then rejected.
C4_Witness ==
    /\ Len(moves) = 4
    /\ result.tag = "Err"
    /\ next_player = One

\* C5: for each player and size at most 2 cells hold that player's piece of
\* that size.
C5_InventoryInvariant ==
    \A p \in Players : \A s \in Sizes : Held(board, p, s) <= 2

\* C5 witness: a third piece of a size was asked from the inventory and
\* refused.
C5_Witness ==
    /\ result.tag = "Err"
    /\ result.err = "PieceNotInInventory"
    /\ Held(board, mv.player, mv.size) = 2

\* C6: submit reports the first failing check in the order GameOver,
\* OutOfTurn, PieceNotAtSource, PieceBlockedAtSource (PieceNotInInventory
\* for an inventory move), TargetBlocked.
C6_FirstFailingCheck ==
    [][LET m == mv'
           e == result'.err
       IN /\ IsOver => e = "GameOver"
          /\ (~IsOver /\ IsOutOfTurn(m)) => e = "OutOfTurn"
          /\ (~IsOver /\ ~IsOutOfTurn(m) /\ IsNotAtSource(m))
                 => e = "PieceNotAtSource"
          /\ (~IsOver /\ ~IsOutOfTurn(m) /\ ~IsNotAtSource(m)
                  /\ IsBlockedAtSource(m))
                 => e = "PieceBlockedAtSource"
          /\ (~IsOver /\ ~IsOutOfTurn(m) /\ IsNotInInventory(m))
                 => e = "PieceNotInInventory"
          /\ (~IsOver /\ ~IsOutOfTurn(m) /\ ~IsNotAtSource(m)
                  /\ ~IsBlockedAtSource(m) /\ ~IsNotInInventory(m)
                  /\ IsTargetBlocked(m))
                 => e = "TargetBlocked"]_vars

\* C6 witness: a relocation from a buried slot held by the other player,
\* onto a blocked target, was rejected with PieceNotAtSource.
C6_Witness ==
    /\ result.tag = "Err"
    /\ result.err = "PieceNotAtSource"
    /\ board[mv.source][mv.size] = Other(mv.player)
    /\ TopSize(board[mv.source]) > mv.size
    /\ IsTargetBlocked(mv)

\* C7: submit returns Ok exactly when the game is in progress, the mover is
\* the player to move, the source holds the mover's unburied piece (or the
\* inventory still has one), and the target is empty or topped by a strictly
\* smaller piece.
C7_AcceptedExactlyWhenLegal ==
    [][LET m == mv'
       IN result'.tag = "Ok" <=>
            /\ victory = NoVictory
            /\ m.player = Turn
            /\ m.source /= NoCell =>
                   /\ board[m.source][m.size] = m.player
                   /\ ~(TopSize(board[m.source]) > m.size)
            /\ m.source = NoCell => Held(board, m.player, m.size) < 2
            /\ \/ Occupied(board[m.target]) = {}
               \/ TopSize(board[m.target]) < m.size]_vars

\* C7 witness: a relocation onto a smaller piece was accepted.
C7_Witness ==
    /\ result.tag = "Ok"
    /\ mv.source /= NoCell
    /\ Occupied(board[mv.target]) \ {mv.size} /= {}

\* C8: on the mover's turn in a game in progress, relocating an own piece
\* that lies under a larger piece is rejected with PieceBlockedAtSource, and
\* every accepted relocation moves the top piece of its source cell.
C8_BuriedPieceCannotMove ==
    [][LET m == mv'
       IN /\ (/\ victory = NoVictory
              /\ m.player = Turn
              /\ m.source /= NoCell
              /\ board[m.source][m.size] = m.player
              /\ TopSize(board[m.source]) > m.size)
                 => (result'.tag = "Err"
                     /\ result'.err = "PieceBlockedAtSource")
          /\ (result'.tag = "Ok" /\ m.source /= NoCell)
                 => /\ TopSize(board[m.source]) = m.size
                    /\ TopPlayer(board[m.source]) = m.player]_vars

\* C8 witness: the mover's own piece, buried at the source, was refused.
C8_Witness ==
    /\ result.tag = "Err"
    /\ result.err = "PieceBlockedAtSource"
    /\ board[mv.source][mv.size] = mv.player
    /\ TopSize(board[mv.source]) > mv.size

\* C9: a move that passes the turn and source checks is rejected with
\* TargetBlocked when the target's top size is equal to or larger than the
\* move's size and accepted otherwise; an accepted move writes into an empty
\* slot and the moved piece is the top piece of the target afterwards.
C9_DestinationRule ==
    [][LET m == mv'
           passes == /\ ~IsOver
                     /\ ~IsOutOfTurn(m)
                     /\ ~IsNotAtSource(m)
                     /\ ~IsBlockedAtSource(m)
                     /\ ~IsNotInInventory(m)
       IN /\ (passes /\ IsTargetBlocked(m))
                 => (result'.tag = "Err" /\ result'.err = "TargetBlocked")
          /\ (passes /\ ~IsTargetBlocked(m)) => result'.tag = "Ok"
          /\ result'.tag = "Ok"
                 => /\ board[m.target][m.size] = None
                    /\ TopSize(board'[m.target]) = m.size
                    /\ TopPlayer(board'[m.target]) = m.player]_vars

\* C9 witness: a piece was refused on a target topped by a piece of its own
\* size.
C9_Witness ==
    /\ result.tag = "Err"
    /\ result.err = "TargetBlocked"
    /\ TopSize(board[mv.target]) = mv.size

\* C10: an inventory move by the player to move, in a game in progress, is
\* rejected with PieceNotInInventory exactly when 2 or more cells hold the
\* mover's piece of that size, covered pieces included.
C10_InventoryExhausted ==
    [][LET m == mv'
       IN (victory = NoVictory /\ m.player = Turn /\ m.source = NoCell)
              => ((result'.tag = "Err" /\ result'.err = "PieceNotInInventory")
                  <=> Held(board, m.player, m.size) >= 2)]_vars

\* C10 witness: the inventory was found exhausted while one of the two
\* pieces on the board lies under a larger piece.
C10_Witness ==
    /\ result.tag = "Err"
    /\ result.err = "PieceNotInInventory"
    /\ mv.source = NoCell
    /\ \E c \in Cells : /\ board[c][mv.size] = mv.player
                        /\ TopSize(board[c]) > mv.size

\* A move, and the victory of a player on row r.
Mv(p, s, src, tgt) == [player |-> p, size |-> s, source |-> src, target |-> tgt]
RowVictory(p, r) == [player |-> p, line |-> [kind |-> "Row", n |-> r]]

\* Player One has placed Small pieces on (0,0) and (0,1) and Player Two has
\* answered twice away from row 0.
TwoSmallOnRowZero ==
    /\ Len(moves) = 4
    /\ moves[1] = Mv(One, Small, NoCell, 0)
    /\ moves[3] = Mv(One, Small, NoCell, 1)
    /\ moves[2].player = Two /\ moves[2].target \notin {0, 1, 2}
    /\ moves[4].player = Two /\ moves[4].target \notin {0, 1, 2}

\* C11 as stated: after Small pieces at (0,0) and (0,1), Player One's third
\* Small piece from the inventory at (0,2) returns the victory on Row(0).
C11_Original ==
    [][(TwoSmallOnRowZero /\ mv' = Mv(One, Small, NoCell, 2))
           => (result'.tag = "Ok" /\ result'.victory = RowVictory(One, 0))]_vars

\* C11 amended: after Small pieces at (0,0) and (0,1), Player One's Medium or
\* Large piece from the inventory at (0,2) returns the victory on Row(0).
C11_ThirdPieceOfAnotherSize ==
    [][(/\ TwoSmallOnRowZero
        /\ mv'.player = One
        /\ mv'.size \in {Medium, Large}
        /\ mv'.source = NoCell
        /\ mv'.target = 2)
           => (result'.tag = "Ok" /\ result'.victory = RowVictory(One, 0))]_vars

\* C11 witness: the third piece, a larger one, has completed row 0.
C11_Witness ==
    /\ Len(moves) = 5
    /\ moves[1] = Mv(One, Small, NoCell, 0)
    /\ moves[3] = Mv(One, Small, NoCell, 1)
    /\ moves[2].target \notin {0, 1, 2}
    /\ moves[4].target \notin {0, 1, 2}
    /\ mv = moves[5]
    /\ mv.size \in {Medium, Large} /\ mv.source = NoCell /\ mv.target = 2
    /\ result = Ok(RowVictory(One, 0))

\* C12 as stated: on their turn the mover relocates their Small piece away
\* from a cell where it lies with the opponent's Large piece, which leaves
\* that cell to the opponent.
C12_Original ==
    [][LET m == mv'
       IN (/\ victory = NoVictory
           /\ m.player = Turn
           /\ m.source /= NoCell
           /\ m.size = Small
           /\ board[m.source][Small] = m.player
           /\ board[m.source][Large] = Other(m.player)
           /\ ~IsTargetBlocked(m))
              => /\ result'.tag = "Ok"
                 /\ TopPlayer(board'[m.source]) = Other(m.player)]_vars

\* The accepted relocation m has uncovered a piece of the opponent at its
\* source and thereby completed a line for the opponent, while its target
\* lies on a line completed by the mover (b: the board after the move).
UncoversAndCompletes(b, m) ==
    /\ m.source /= NoCell
    /\ TopPlayer(b[m.source]) = Other(m.player)
    /\ \E L \in Completed(b, Other(m.player)) : m.source \in L
    /\ \E L \in Completed(b, m.player) : m.target \in L

\* C12 amended: when the mover relocates a covering piece so that the
\* opponent's smaller piece beneath it completes a line for the opponent
\* while the target completes a line for the mover, submit returns the
\* opponent's victory.
C12_UncoveringLosesToOpponent ==
    [][(result'.tag = "Ok" /\ UncoversAndCompletes(board', mv'))
           => /\ result'.victory.player = Other(mv'.player)
              /\ CellsOf(result'.victory.line)
                     \in Completed(board', Other(mv'.player))]_vars

\* C12 witness: a Large piece has left the opponent's Small piece, both
\* players complete a line and the opponent has won.
C12_Witness ==
    /\ result.tag = "Ok"
    /\ UncoversAndCompletes(board, mv)
    /\ mv.size = Large
    /\ board[mv.source][Small] = Other(mv.player)
    /\ result.victory.player = Other(mv.player)

\* C13: an accepted submit appends exactly the submitted move as the last
\* element of moves(), also when it ends the game; a rejected submit leaves
\* moves() unchanged; earlier elements are never changed or removed.
C13_HistoryAppendOnly ==
    [][/\ result'.tag = "Ok"
              => /\ Len(moves') = Len(moves) + 1
                 /\ moves'[Len(moves')] = mv'
       /\ result'.tag = "Err" => moves' = moves
       /\ Len(moves') >= Len(moves)
       /\ \A i \in 1 .. Len(moves) : moves'[i] = moves[i]]_vars

\* C13 witness: the move that ended the game is the last of five moves.
C13_Witness ==
    /\ result.tag = "Ok"
    /\ result.victory /= NoVictory
    /\ Len(moves) = 5
    /\ moves[5] = mv

\* The order in which the lines are to be reported.
LineOrder ==
    << [kind |-> "Row", n |-> 0], [kind |-> "Row", n |-> 1],
       [kind |-> "Row", n |-> 2], [kind |-> "Col", n |-> 0],
       [kind |-> "Col", n |-> 1], [kind |-> "Col", n |-> 2],
       [kind |-> "DiagonalUp", n |-> 0], [kind |-> "DiagonalDown", n |-> 0] >>

\* The first line of LineOrder that p completes on b (p completes one).
FirstCompleted(b, p) ==
    LineOrder[CHOOSE i \in 1 .. 8 :
                 /\ CellsOf(LineOrder[i]) \in Completed(b, p)
                 /\ \A j \in 1 .. i - 1 :
                        CellsOf(LineOrder[j]) \notin Completed(b, p)]

\* C14: the line reported by look_for_victory is the first line, in the order
\* Row(0), Row(1), Row(2), Col(0), Col(1), Col(2), DiagonalUp, DiagonalDown,
\* that the declared winner completes.
C14_FirstLineReported ==
    (call.fn = "look_for_victory" /\ ret.done /\ ret.val /= NoVictory)
        => /\ Completed(call.board, ret.val.player) /= {}
           /\ ret.val.line = FirstCompleted(call.board, ret.val.player)

\* C14 witness: the last-moving player has won while completing two or more
\* lines, none of them Row(0).
C14_Witness ==
    /\ call.fn = "look_for_victory" /\ ret.done
    /\ ret.val.player = call.player
    /\ Cardinality(Completed(call.board, call.player)) >= 2
    /\ {0, 1, 2} \notin Completed(call.board, call.player)

\* The line predicate: row = r, col = c, row + col = 2, row = col.
OnLine(line, c) ==
    \/ line.kind = "Row" /\ c \div 3 = line.n
    \/ line.kind = "Col" /\ c % 3 = line.n
    \/ line.kind = "DiagonalUp" /\ (c \div 3) + (c % 3) = 2
    \/ line.kind = "DiagonalDown" /\ c \div 3 = c % 3

\* C15: Line::all yields exactly the 8 distinct lines Row 0..2, Col 0..2,
\* DiagonalUp, DiagonalDown, and Board::line yields for each of them exactly
\* 3 distinct cells, those that satisfy the line predicate.
C15_EightLinesOfThreeCells ==
    /\ Len(AllLines) = 8
    /\ {AllLines[i] : i \in 1 .. Len(AllLines)}
           = {LineOrder[i] : i \in 1 .. 8}
    /\ (call.fn = "Board::line" /\ ret.done)
           => /\ Len(ret.val) = 3
              /\ \A i, j \in 1 .. Len(ret.val) :
                     ret.val[i] = ret.val[j] => i = j
              /\ {ret.val[i] : i \in 1 .. Len(ret.val)}
                     = {c \in Cells : OnLine(call.line, c)}

\* C15 witness: Board::line has yielded the cells of the rising diagonal.
C15_Witness ==
    /\ call.fn = "Board::line" /\ ret.done
    /\ call.line.kind = "DiagonalUp"
    /\ ret.val = <<2, 4, 6>>

\* C16: Cell::new(row, col) succeeds exactly when row <= 2 and col <= 2; the
\* cell then reports that row and column and equals no cell made from other
\* coordinates; (3,0) fails with RowOutOfBounds, (0,3) with
\* ColumnOutOfBounds, (2,2) succeeds.
C16_CellNewBounds ==
    (call.fn = "Cell::new" /\ ret.done) =>
        LET r == call.row
            c == call.col
            v == ret.val
        IN /\ v.ok <=> (r <= 2 /\ c <= 2)
           /\ v.ok => /\ Row(v.cell) = r
                      /\ Col(v.cell) = c
                      /\ \A r2, c2 \in 0 .. 2 :
                             (CellNew(r2, c2).cell = v.cell)
                                 <=> (r2 = r /\ c2 = c)
           /\ (r = 3 /\ c = 0) => (~v.ok /\ v.err = "RowOutOfBounds")
           /\ (r = 0 /\ c = 3) => (~v.ok /\ v.err = "ColumnOutOfBounds")
           /\ (r = 2 /\ c = 2) => v.ok

\* C16 witness: Cell::new(0, 3) has failed with ColumnOutOfBounds.
C16_Witness ==
    /\ call.fn = "Cell::new" /\ ret.done
    /\ call.row = 0 /\ call.col = 3
    /\ ~ret.val.ok /\ ret.val.err = "ColumnOutOfBounds"

\* C17: formatting a Move with its Display implementation and parsing the
\* text back with Move::from_str yields a Move equal to the original.
C17_RoundTrip ==
    (call.fn = "Move::from_str" /\ ret.done)
        => (ret.val.ok /\ ret.val.move = call.move)

\* C19: for every cell state size() is the largest occupied size (None when
\* all slots are empty), controlled_by() is the occupant of that slot, the
\* two are None together, and the Display of the state does not panic.
C19_TopOfCell ==
    (call.fn = "CellState" /\ ret.done) =>
        LET v == ret.val
        IN /\ v.size = TopSize(call.state)
           /\ v.controlled_by = TopPlayer(call.state)
           /\ (v.controlled_by = None) <=> (v.size = NoSize)
           /\ v.display /= <<"panic">>

\* C19 witness: a cell holding pieces of both players has been queried.
C19_Witness ==
    /\ call.fn = "CellState" /\ ret.done
    /\ call.state[Small] = Two
    /\ call.state[Large] = One
    /\ ret.val.controlled_by = One

\* C18: an accepted move sets the target's slot of the move's size to the
\* mover, clears the source's slot of that size (for a relocation) and
\* changes no other slot; a piece that lay under the moved piece at the
\* source controls the source cell afterwards.
C18_FrameOfAcceptedMove ==
    [][result'.tag = "Ok" =>
          LET m == mv'
              below == IF m.source = NoCell THEN {}
                       ELSE Occupied(board[m.source]) \ {m.size}
          IN /\ \A c \in Cells : \A s \in Sizes :
                    board'[c][s] =
                        IF c = m.target /\ s = m.size THEN m.player
                        ELSE IF c = m.source /\ s = m.size THEN None
                        ELSE board[c][s]
             /\ below /= {}
                    => TopPlayer(board'[m.source])
                           = board[m.source]
                                 [CHOOSE s \in below : \A u \in below : u <= s]]_vars

\* C18 witness: a covering piece has moved away and the piece it hid
\* controls the source cell again.
C18_Witness ==
    /\ result.tag = "Ok"
    /\ mv.source /= NoCell
    /\ Occupied(board[mv.source]) /= {}
    /\ TopPlayer(board[mv.source]) = Other(mv.player)

C21_OutcomeLineIsOnBoard ==
    victory /= NoVictory
        => /\ victory.player \in Players
           /\ Cardinality(CellsOf(victory.line)) = 3
           /\ \A c \in CellsOf(victory.line) :
                  TopPlayer(board[c]) = victory.player

\* C21 witness: the game has ended with a line of Player Two and a later
\* submit has been turned down.
C21_Witness ==
    /\ victory.player = Two
    /\ result.tag = "Err"
    /\ \A c \in CellsOf(victory.line) : TopPlayer(board[c]) = Two

\* C22: while there is no outcome neither player completes any of the 8
\* lines on the board (before and after every step), and every accepted move
\* was submitted against a board without a completed line.
NoLineCompleted(b) ==
    \A L \in WinLines :
        \/ \E c \in L : Occupied(b[c]) = {}
        \/ \E c, d \in L : TopPlayer(b[c]) /= TopPlayer(b[d])
C22_NoLineWhileInProgress ==
    [][/\ (victory = NoVictory \/ result'.tag = "Ok")
              => NoLineCompleted(board)
       /\ victory' = NoVictory => NoLineCompleted(board')]_vars

\* C22 witness: a relocation has uncovered a piece of the opponent, the game
\* goes on and no line is completed.
C22_Witness ==
    /\ victory = NoVictory
    /\ result.tag = "Ok"
    /\ mv.source /= NoCell
    /\ TopPlayer(board[mv.source]) = Other(mv.player)
    /\ Completed(board, One) = {} /\ Completed(board, Two) = {}

\* C23: an accepted move from the inventory never returns a victory of the
\* mover's opponent, and an accepted relocation that returns one reports a
\* line through the move's source cell.
C23_OpponentWinsOnlyByUncovering ==
    [][result'.tag = "Ok" /\ result'.victory.player = Other(mv'.player)
          => /\ mv'.source /= NoCell
             /\ mv'.source \in CellsOf(result'.victory.line)]_vars

\* C23 witness: a relocation has handed the game to the opponent alone; the
\* winning line runs through the cell the piece left.
C23_Witness ==
    /\ result.tag = "Ok"
    /\ result.victory.player = Other(mv.player)
    /\ mv.source \in CellsOf(result.victory.line)
    /\ Completed(board, mv.player) = {}

\* Number of moves of the history made by p with size s from the inventory,
\* and the number of pieces on a board.
Placed(ms, p, s) ==
    Cardinality({i \in 1 .. Len(ms) :
                    ms[i].player = p /\ ms[i].size = s /\ ms[i].source = NoCell})
OnBoard(b) ==
    Cardinality({x \in Cells \X Sizes : b[x[1]][x[2]] \in Players})

\* C24: before and after every step, for each player and size the number of
\* cells whose slot of that size holds the player equals the number of moves
\* of the history the player made with that size from the inventory; the
\* number of pieces on the board never decreases.
C24_BoardMatchesHistory ==
    [][/\ \A p \in Players : \A s \in Sizes :
              /\ Held(board, p, s) = Placed(moves, p, s)
              /\ Held(board', p, s) = Placed(moves', p, s)
       /\ OnBoard(board') >= OnBoard(board)]_vars

\* C24 witness: a relocation has been accepted while both pieces of the
\* moved size are on the board, and two placements of that size are in the
\* history.
C24_Witness ==
    /\ result.tag = "Ok"
    /\ mv.source /= NoCell
    /\ Held(board, mv.player, mv.size) = 2
    /\ Placed(moves, mv.player, mv.size) = 2

\* C26: a relocation whose source and target are the same cell is rejected;
\* when the game is in progress, it is the mover's turn, the piece is at the
\* source and is not covered, the error is TargetBlocked. Every accepted move
\* changes the board.
C26_NoPass ==
    [][/\ mv'.source = mv'.target
              => /\ result'.tag = "Err"
                 /\ (~IsOver /\ ~IsOutOfTurn(mv') /\ ~IsNotAtSource(mv')
                        /\ ~IsBlockedAtSource(mv'))
                        => result'.err = "TargetBlocked"
       /\ result'.tag = "Ok" => board' /= board]_vars

\* C26 witness: the player to move tried to put its own uncovered piece back
\* on the cell it stands on and was turned down with TargetBlocked.
C26_Witness ==
    /\ mv.source = mv.target
    /\ result.tag = "Err"
    /\ result.err = "TargetBlocked"
    /\ mv.player = Turn
    /\ TopPlayer(board[mv.source]) = mv.player
    /\ TopSize(board[mv.source]) = mv.size

\* The board obtained from the empty board by the first k moves of a history,
\* each one setting its target slot and clearing its source slot.
RECURSIVE Replay(_, _)
Replay(ms, k) ==
    IF k = 0
    THEN [c \in Cells |-> [s \in Sizes |-> None]]
    ELSE LET b == Replay(ms, k - 1)
             m == ms[k]
         IN [c \in Cells |->
                [s \in Sizes |->
                    IF c = m.target /\ s = m.size THEN m.player
                    ELSE IF c = m.source /\ s = m.size THEN None
                    ELSE b[c][s]]]

\* The position (board and player to move) of k moves ago has come back.
Recurs(k) ==
    /\ k \in 1 .. Len(moves)
    /\ victory = NoVictory
    /\ Replay(moves, Len(moves) - k) = board
    /\ moves[Len(moves) - k + 1].player = Turn

\* C25: play need not end. Whenever the position of k moves ago has come
\* back without an outcome, the move that was made from it then is accepted
\* again, leaves the game without an outcome and leads to the position that
\* followed it then; the k moves can so be repeated without end.
C25_PlayNeedNotEnd ==
    [][\A k \in 1 .. Len(moves) :
           Recurs(k) /\ mv' = moves[Len(moves) - k + 1]
               => /\ result'.tag = "Ok"
                  /\ victory' = NoVictory
                  /\ board' = Replay(moves, Len(moves) - k + 1)
                  /\ moves' = Append(moves, mv')]_vars

\* C25 witness: the last four accepted moves repeat the four before them,
\* the position is the one of four and of eight moves ago, and there is no
\* outcome.
C25_Witness ==
    /\ Len(moves) >= 10
    /\ victory = NoVictory
    /\ Recurs(4)
    /\ Replay(moves, Len(moves) - 8) = board
    /\ \A i \in 1 .. 4 : moves[Len(moves) - 4 + i] = moves[Len(moves) - 8 + i]

\* A step that leaves the game as it was.
GameUnchanged == board' = board /\ moves' = moves /\ victory' = victory

====
